---------------------------- MODULE Spec2Model ----------------------------
(***************************************************************************)
(* A model of src/src/index.ts: the daily AWS cost report.                 *)
(*                                                                         *)
(*   main               -> getCostsByService (two getCostAndUsage calls,   *)
(*                         aggregation, classification), console.log of    *)
(*                         the JSON summary, createGitHubIssue, and the    *)
(*                         catch block (console.error, process.exit(1)).   *)
(*                                                                         *)
(* Strings that the code inspects (service names) are sequences of         *)
(* one-character strings, so that toLowerCase and includes are computed.   *)
(* Money amounts are integers in units of 0.001 USD; a percentage is an    *)
(* exact fraction [n, d] with d > 0.  Floating-point rounding is outside   *)
(* the model.                                                              *)
(***************************************************************************)
EXTENDS Integers, Sequences, FiniteSets, TLC

VARIABLES
    pc,               \* position of the process inside main
    env,              \* process.env: which of the three GITHUB_* values are set
    currentResponse,  \* const currentResponse in getCostsByService
    previousResponse, \* const previousResponse in getCostsByService
    result,           \* const result in main (<<>> until computed)
    issueBody,        \* const issueBody in createGitHubIssue (<<>> until built)
    stdout,           \* documents written by console.log in this run
    stderr,           \* errors written by console.error in this run
    exitCode,         \* -1 while running, 0 normal end, 1 process.exit(1)
    error,            \* the exception in flight / caught ("none" if none)
    fetchCalls,       \* getCostAndUsage requests issued in this run
    createCalls,      \* octokit.issues.create requests issued in this run
    issues,           \* the issue tracker: every issue created so far
    runs,             \* number of runs of main started so far
    completed         \* number of runs that ended normally so far

vars == <<pc, env, currentResponse, previousResponse, result, issueBody,
          stdout, stderr, exitCode, error, fetchCalls, createCalls, issues,
          runs, completed>>

---------------------------------------------------------------------------
(* Bounds of the model.                                                    *)

\* Total number of groups the provider returns over both windows of a run.
MaxGroups == 3

\* Number of groups over both windows when names are drawn from AllNames.
MaxNamedGroups == 2

\* Number of runs of main.
MaxRuns == 2

---------------------------------------------------------------------------
(* Characters and strings.                                                 *)

\* One character of String.prototype.toLowerCase: the letters A to Z change.
ToLowerChar(c) ==
    CASE c = "A" -> "a" [] c = "B" -> "b" [] c = "C" -> "c" [] c = "D" -> "d"
         [] c = "E" -> "e" [] c = "F" -> "f" [] c = "G" -> "g" [] c = "H" -> "h"
         [] c = "I" -> "i" [] c = "J" -> "j" [] c = "K" -> "k" [] c = "L" -> "l"
         [] c = "M" -> "m" [] c = "N" -> "n" [] c = "O" -> "o" [] c = "P" -> "p"
         [] c = "Q" -> "q" [] c = "R" -> "r" [] c = "S" -> "s" [] c = "T" -> "t"
         [] c = "U" -> "u" [] c = "V" -> "v" [] c = "W" -> "w" [] c = "X" -> "x"
         [] c = "Y" -> "y" [] c = "Z" -> "z" [] OTHER -> c

\* String.prototype.toLowerCase.
RECURSIVE ToLowerCase(_)
ToLowerCase(s) ==
    IF s = <<>> THEN <<>> ELSE <<ToLowerChar(Head(s))>> \o ToLowerCase(Tail(s))

\* String.prototype.includes: sub occurs in s as a contiguous substring.
Includes(s, sub) ==
    \E i \in 1..(Len(s) - Len(sub) + 1) : \A j \in 1..Len(sub) : s[i + j - 1] = sub[j]

\* Array.prototype.some(s => service.includes(s)).
SomeIncluded(service, words) == \E i \in 1..Len(words) : Includes(service, words[i])

Word_ec2 == <<"e", "c", "2">>
Word_tax == <<"t", "a", "x">>
SecurityWords ==
    << <<"g", "u", "a", "r", "d", "d", "u", "t", "y">>,
       <<"v", "p", "c">>,
       <<"k", "m", "s">>,
       <<"c", "l", "o", "u", "d", "f", "r", "o", "n", "t">> >>
ManagementWords ==
    << <<"c", "l", "o", "u", "d", "w", "a", "t", "c", "h">>,
       <<"s", "e", "c", "r", "e", "t", "s", " ", "m", "a", "n", "a", "g", "e", "r">> >>
StorageWords ==
    << <<"r", "d", "s">>,
       <<"s", "3">>,
       <<"d", "y", "n", "a", "m", "o", "d", "b">>,
       <<"g", "l", "a", "c", "i", "e", "r">> >>

\* The literal 'Unknown' that stands in for a missing or empty group key.
Unknown == <<"U", "n", "k", "n", "o", "w", "n">>

\* The keys of the categories object, in the order the literal lists them.
CategoryNames == <<"ec2", "security", "management", "storage", "other", "tax">>
CategorySet == {CategoryNames[i] : i \in 1..Len(CategoryNames)}

\* A plausible slip: the substring tests applied to the name as given.
CategoryOf_CaseSensitive(serviceName) ==
    IF Includes(serviceName, Word_ec2) THEN "ec2"
    ELSE IF SomeIncluded(serviceName, SecurityWords) THEN "security"
    ELSE IF SomeIncluded(serviceName, ManagementWords) THEN "management"
    ELSE IF SomeIncluded(serviceName, StorageWords) THEN "storage"
    ELSE IF Includes(serviceName, Word_tax) THEN "tax"
    ELSE "other"

\* The conditional chain that picks a service's category.
CategoryOf(serviceName) ==
    LET service == ToLowerCase(serviceName) IN
    IF Includes(service, Word_ec2) THEN "ec2"
    ELSE IF SomeIncluded(service, SecurityWords) THEN "security"
    ELSE IF SomeIncluded(service, ManagementWords) THEN "management"
    ELSE IF SomeIncluded(service, StorageWords) THEN "storage"
    ELSE IF Includes(service, Word_tax) THEN "tax"
    ELSE "other"

---------------------------------------------------------------------------
(* Arithmetic of the report.                                               *)

Abs(x) == IF x < 0 THEN -x ELSE x

\* The fraction num/den with a positive denominator.
Frac(num, den) == IF den < 0 THEN [n |-> -num, d |-> -den] ELSE [n |-> num, d |-> den]

\* A plausible slip: no special case for a zero previous amount with a
\* nonzero current amount.
ChangePercentage_ZeroPrevious(current, previous) ==
    IF previous = 0
    THEN Frac(0, 1)
    ELSE Frac((current - previous) * 100, previous)

\* previous === 0 ? (current === 0 ? 0 : 100)
\*                : ((current - previous) / previous) * 100
ChangePercentage(current, previous) ==
    IF previous = 0
    THEN (IF current = 0 THEN Frac(0, 1) ELSE Frac(100, 1))
    ELSE Frac((current - previous) * 100, previous)

\* group.Keys?.[0] || 'Unknown'   (<<>> is a missing or empty key)
KeyOf(group) == IF group.Keys = <<>> THEN Unknown ELSE group.Keys

\* Number(group.Metrics?.UnblendedCost.Amount || 0)   (<<>>: no amount)
AmountOf(group) == IF group.Metrics = <<>> THEN 0 ELSE group.Metrics[1]

\* Map.prototype.set on a map kept as a sequence of [key, value] entries in
\* insertion order: an existing key keeps its place and takes the new value.
MapSet(m, k, v) ==
    IF \E i \in 1..Len(m) : m[i].key = k
    THEN [i \in 1..Len(m) |-> IF m[i].key = k THEN [key |-> k, value |-> v] ELSE m[i]]
    ELSE Append(m, [key |-> k, value |-> v])

MapHas(m, k) == \E i \in 1..Len(m) : m[i].key = k

\* map.get(service) || 0
MapGetOrZero(m, k) ==
    IF MapHas(m, k) THEN m[CHOOSE i \in 1..Len(m) : m[i].key = k].value ELSE 0

\* The for-of loop over Groups: total += amount; costs.set(key, amount).
RECURSIVE ProcessGroups(_, _)
ProcessGroups(groups, acc) ==
    IF groups = <<>> THEN acc
    ELSE LET group == Head(groups)
             amount == AmountOf(group)
         IN ProcessGroups(Tail(groups),
                          [total |-> acc.total + amount,
                           costs |-> MapSet(acc.costs, KeyOf(group), amount)])

\* response.ResultsByTime && response.ResultsByTime[0].Groups :
\* the shapes of a GetCostAndUsage response.
\*   "absent"   ResultsByTime is undefined
\*   "empty"    ResultsByTime is []          (ResultsByTime[0] is undefined)
\*   "noGroups" ResultsByTime[0] has no Groups
\*   "groups"   ResultsByTime[0].Groups is a list
ConditionThrows(response) == response.kind = "empty"

WindowCosts(response) ==
    IF response.kind = "groups"
    THEN ProcessGroups(response.Groups, [total |-> 0, costs |-> <<>>])
    ELSE [total |-> 0, costs |-> <<>>]

\* new Set([...currentCosts.keys(), ...previousCosts.keys()]) in insertion order.
RECURSIVE AddKeys(_, _)
AddKeys(keys, m) ==
    IF m = <<>> THEN keys
    ELSE LET k == Head(m).key IN
         AddKeys(IF \E i \in 1..Len(keys) : keys[i] = k THEN keys ELSE Append(keys, k),
                 Tail(m))

AllServices(currentCosts, previousCosts) ==
    AddKeys(AddKeys(<<>>, currentCosts), previousCosts)

\* The body of the loop over allServices: one CostByService.
ServiceCost(service, currentCosts, previousCosts) ==
    LET currentAmount == MapGetOrZero(currentCosts, service)
        previousAmount == MapGetOrZero(previousCosts, service)
    IN [serviceName |-> service,
        amount |-> currentAmount,
        previousAmount |-> previousAmount,
        changePercentage |-> ChangePercentage(currentAmount, previousAmount),
        unit |-> "USD"]

\* Array.prototype.sort with a comparator b.key - a.key, on a list of
\* [key, item] pairs: the sort is stable, so an element goes after every
\* earlier element whose key is not smaller.
RECURSIVE InsertDesc(_, _)
InsertDesc(sorted, x) ==
    IF sorted = <<>> THEN <<x>>
    ELSE IF Head(sorted).key >= x.key
         THEN <<Head(sorted)>> \o InsertDesc(Tail(sorted), x)
         ELSE <<x>> \o sorted

RECURSIVE SortDesc(_, _)
SortDesc(list, acc) ==
    IF list = <<>> THEN acc
    ELSE SortDesc(Tail(list), InsertDesc(acc, Head(list)))

\* costs.sort((a, b) => b.amount - a.amount)
SortCosts(costs) ==
    LET keyed == [i \in 1..Len(costs) |-> [key |-> costs[i].amount, item |-> costs[i]]]
        sorted == SortDesc(keyed, <<>>)
    IN [i \in 1..Len(sorted) |-> sorted[i].item]

\* The initial categories object.
EmptyCategories ==
    [c \in CategorySet |-> [current |-> 0, previous |-> 0, changePercentage |-> Frac(0, 1)]]

\* A plausible slip: the previous amount is added to both sums.
RECURSIVE Accumulate_PreviousTwice(_, _)
Accumulate_PreviousTwice(costs, categories) ==
    IF costs = <<>> THEN categories
    ELSE LET cost == Head(costs)
             category == CategoryOf(cost.serviceName)
         IN Accumulate_PreviousTwice(Tail(costs),
                [categories EXCEPT
                   ![category].current = @ + cost.previousAmount,
                   ![category].previous = @ + cost.previousAmount])

\* for (const cost of costs) { categories[category].current += ...; .previous += ... }
RECURSIVE Accumulate(_, _)
Accumulate(costs, categories) ==
    IF costs = <<>> THEN categories
    ELSE LET cost == Head(costs)
             category == CategoryOf(cost.serviceName)
         IN Accumulate(Tail(costs),
                [categories EXCEPT
                   ![category].current = @ + cost.amount,
                   ![category].previous = @ + cost.previousAmount])

\* for (const category of Object.values(categories)) category.changePercentage = ...
WithChange(categories) ==
    [c \in CategorySet |->
        [categories[c] EXCEPT
           !.changePercentage = ChangePercentage(categories[c].current,
                                                 categories[c].previous)]]

\* The value getCostsByService returns for two responses that passed the
\* conditions of lines 64 and 74.
CostResult(current, previous) ==
    LET cur == WindowCosts(current)
        prev == WindowCosts(previous)
        services == AllServices(cur.costs, prev.costs)
        unsorted == [i \in 1..Len(services) |->
                        ServiceCost(services[i], cur.costs, prev.costs)]
        costs == SortCosts(unsorted)
    IN [costs |-> costs,
        total |-> cur.total,
        previousTotal |-> prev.total,
        totalChangePercentage |-> ChangePercentage(cur.total, prev.total),
        startDate |-> "yesterday",
        endDate |-> "now",
        categories |-> WithChange(Accumulate(costs, EmptyCategories))]

---------------------------------------------------------------------------
(* The two renderers.                                                      *)

\* The thresholds of the notable-changes filter: 10 percent, and 0.01 USD
\* in units of 0.001 USD.
NotableChange == 10
MinNotableAmount == 10

\* number.toFixed(2) of an amount, as a number of cents (half away from zero).
ToFixed2(amount) ==
    LET cents == (Abs(amount) + 5) \div 10
    IN IF amount < 0 THEN -cents ELSE cents

ServiceNames(costs) == [i \in 1..Len(costs) |-> costs[i].serviceName]

\* cost => cost.amount > 0 || cost.previousAmount! > 0
DetailFilter(cost) == cost.amount > 0 \/ cost.previousAmount > 0

\* A plausible slip: either condition is enough.
NotableFilter_Either(cost) ==
    \/ Abs(cost.changePercentage.n) > NotableChange * cost.changePercentage.d
    \/ cost.amount > MinNotableAmount

\* cost => Math.abs(cost.changePercentage!) > 10 && cost.amount > 0.01
NotableFilter(cost) ==
    /\ Abs(cost.changePercentage.n) > NotableChange * cost.changePercentage.d
    /\ cost.amount > MinNotableAmount

\* Object.entries(costResult.categories).sort(([, a], [, b]) => b.current - a.current)
SortedCategories(categories) ==
    LET keyed == [i \in 1..Len(CategoryNames) |->
                     [key |-> categories[CategoryNames[i]].current,
                      item |-> CategoryNames[i]]]
        sorted == SortDesc(keyed, <<>>)
    IN [i \in 1..Len(sorted) |-> sorted[i].item]

\* The template literal issueBody: the period, the total, and the entries
\* of its three lists by name (the rendered numbers of an entry are not
\* part of the model).
IssueBody(costResult) ==
    [period |-> <<costResult.startDate, costResult.endDate>>,
     total |-> ToFixed2(costResult.total),
     categories |-> SortedCategories(costResult.categories),
     detail |-> ServiceNames(SelectSeq(costResult.costs, DetailFilter)),
     notable |-> ServiceNames(SelectSeq(costResult.costs, NotableFilter))]

\* The object handed to JSON.stringify and console.log.
Summary(costResult) ==
    [period |-> <<costResult.startDate, costResult.endDate>>,
     totalCost |-> ToFixed2(costResult.total),
     previousTotalCost |-> ToFixed2(costResult.previousTotal),
     currency |-> "USD",
     categories |-> CategoryNames,
     details |-> ServiceNames(costResult.costs)]

\* The argument of octokit.issues.create.
IssueRequest(body) ==
    [title |-> "today", body |-> body, labels |-> <<"cost", "monitoring", "daily-report">>]

\* The TimePeriod of the two getCostAndUsage requests.
CurrentPeriod == [Start |-> "yesterday", End |-> "now"]
PreviousPeriod == [Start |-> "twoDaysAgo", End |-> "yesterday"]

---------------------------------------------------------------------------
(* What the provider may answer.                                           *)

Name_AmazonEC2 == <<"A", "m", "a", "z", "o", "n", " ", "E", "C", "2">>
Name_amazon_ec2 == <<"a", "m", "a", "z", "o", "n", " ", "e", "c", "2">>
Name_AMAZON_EC2_INSTANCE == <<"A", "M", "A", "Z", "O", "N", "-", "E", "C", "2", "-", "I", "N", "S", "T", "A", "N", "C", "E">>
Name_GuardDuty == <<"A", "m", "a", "z", "o", "n", " ", "G", "u", "a", "r", "d", "D", "u", "t", "y">>
Name_VPC == <<"A", "m", "a", "z", "o", "n", " ", "V", "P", "C">>
Name_KMS == <<"A", "W", "S", " ", "K", "M", "S">>
Name_CloudFront == <<"A", "m", "a", "z", "o", "n", " ", "C", "l", "o", "u", "d", "F", "r", "o", "n", "t">>
Name_CloudWatch == <<"A", "m", "a", "z", "o", "n", "C", "l", "o", "u", "d", "W", "a", "t", "c", "h">>
Name_SecretsManager == <<"A", "W", "S", " ", "S", "e", "c", "r", "e", "t", "s", " ", "M", "a", "n", "a", "g", "e", "r">>
Name_RDS == <<"A", "m", "a", "z", "o", "n", " ", "R", "D", "S">>
Name_S3 == <<"A", "m", "a", "z", "o", "n", " ", "S", "3">>
Name_s3 == <<"a", "m", "a", "z", "o", "n", " ", "s", "3">>
Name_DynamoDB == <<"A", "m", "a", "z", "o", "n", " ", "D", "y", "n", "a", "m", "o", "D", "B">>
Name_Glacier == <<"A", "m", "a", "z", "o", "n", " ", "G", "l", "a", "c", "i", "e", "r">>
Name_Tax == <<"T", "a", "x">>
Name_Route53 == <<"A", "m", "a", "z", "o", "n", " ", "R", "o", "u", "t", "e", " ", "5", "3">>
Name_EC2_VPC == <<"E", "C", "2", " ", "V", "P", "C">>
Name_KMS_CloudWatch == <<"K", "M", "S", " ", "C", "l", "o", "u", "d", "W", "a", "t", "c", "h">>
Name_CloudWatch_S3 == <<"C", "l", "o", "u", "d", "W", "a", "t", "c", "h", " ", "S", "3">>
Name_S3_Tax == <<"S", "3", " ", "T", "a", "x">>

AllNames ==
    {Name_AmazonEC2, Name_amazon_ec2, Name_AMAZON_EC2_INSTANCE, Name_GuardDuty,
     Name_VPC, Name_KMS, Name_CloudFront, Name_CloudWatch, Name_SecretsManager,
     Name_RDS, Name_S3, Name_s3, Name_DynamoDB, Name_Glacier, Name_Tax,
     Name_Route53, Name_EC2_VPC, Name_KMS_CloudWatch, Name_CloudWatch_S3,
     Name_S3_Tax, Unknown}

Group(k, a) == [Keys |-> k, Metrics |-> <<a>>]

\* Groups of the aggregation runs: two services and a group without key,
\* with amounts in units of 0.001 USD (a credit of 0.03 USD, zero, 0.001,
\* 0.006, 0.01, 0.40 and 0.46 USD).
ReportGroups ==
    {Group(Name_AmazonEC2, a) : a \in {-30, 0, 400, 460}}
    \cup {Group(Name_S3, a) : a \in {0, 1, 6, 10}}
    \cup {Group(<<>>, a) : a \in {-30, 0, 6}}

\* Groups of the classification runs: every name, one amount (2.00 USD).
NamedGroups == {Group(k, 2000) : k \in AllNames}

\* Groups of the runs of main: one service, and a group with neither key
\* nor amount.
MainGroups ==
    {Group(Name_AmazonEC2, 5000), [Keys |-> <<>>, Metrics |-> <<>>]}

\* The shapes of a response that carries no group.
WithoutGroups ==
    {[kind |-> "absent", Groups |-> <<>>],
     [kind |-> "empty", Groups |-> <<>>],
     [kind |-> "noGroups", Groups |-> <<>>],
     [kind |-> "groups", Groups |-> <<>>]}

GroupList(groups) == [kind |-> "groups", Groups |-> groups]

\* The responses that carry exactly k groups drawn from S.
ResponsesOfSize(S, k) ==
    IF k = 0 THEN WithoutGroups ELSE {GroupList(g) : g \in [1..k -> S]}

Responses(S, max) == UNION {ResponsesOfSize(S, k) : k \in 0..max}

---------------------------------------------------------------------------
(* The process.                                                            *)

EnvValues == [GITHUB_TOKEN : BOOLEAN, GITHUB_OWNER : BOOLEAN, GITHUB_REPO : BOOLEAN]

ProviderError == "provider error"
TypeError == "TypeError: Cannot read properties of undefined (reading 'Groups')"
TokenError == "GITHUB_TOKEN environment variable is not set"
OwnerError == "GITHUB_OWNER environment variable is not set"
RepoError == "GITHUB_REPO environment variable is not set"
SinkError == "issue sink error"

Init ==
    /\ pc = "idle"
    /\ env \in EnvValues
    /\ currentResponse = <<>>
    /\ previousResponse = <<>>
    /\ result = <<>>
    /\ issueBody = <<>>
    /\ stdout = <<>>
    /\ stderr = <<>>
    /\ exitCode = -1
    /\ error = "none"
    /\ fetchCalls = <<>>
    /\ createCalls = 0
    /\ issues = <<>>
    /\ runs = 0
    /\ completed = 0

\* The process is started: main() is called with the environment it is given.
StartRun ==
    /\ pc \in {"idle", "exited"}
    /\ runs < MaxRuns
    /\ runs' = runs + 1
    /\ env' \in EnvValues
    /\ pc' = "fetchCurrent"
    /\ currentResponse' = <<>>
    /\ previousResponse' = <<>>
    /\ result' = <<>>
    /\ issueBody' = <<>>
    /\ stdout' = <<>>
    /\ stderr' = <<>>
    /\ exitCode' = -1
    /\ error' = "none"
    /\ fetchCalls' = <<>>
    /\ createCalls' = 0
    /\ UNCHANGED <<issues, completed>>

\* A plausible slip: a failed request is issued again.
FetchCurrent_Retry ==
    /\ pc = "fetchCurrent"
    /\ Len(fetchCalls) < 3
    /\ fetchCalls' = Append(fetchCalls, CurrentPeriod)
    /\ \/ /\ pc' = "fetchCurrent"
          /\ UNCHANGED <<currentResponse, error>>
       \/ \E r \in Responses(MainGroups, MaxGroups) :
            /\ currentResponse' = <<r>>
            /\ pc' = "fetchPrevious"
            /\ UNCHANGED error
    /\ UNCHANGED <<env, previousResponse, result, issueBody, stdout, stderr,
                   exitCode, createCalls, issues, runs, completed>>

\* await costExplorer.getCostAndUsage for [yesterday, now): the request is
\* issued, and the promise rejects or resolves with a response.
FetchCurrent ==
    /\ pc = "fetchCurrent"
    /\ fetchCalls' = Append(fetchCalls, CurrentPeriod)
    /\ \/ /\ error' = ProviderError
          /\ pc' = "catch"
          /\ UNCHANGED currentResponse
       \/ \E r \in Responses(MainGroups, MaxGroups) :
            /\ currentResponse' = <<r>>
            /\ pc' = "fetchPrevious"
            /\ UNCHANGED error
    /\ UNCHANGED <<env, previousResponse, result, issueBody, stdout, stderr,
                   exitCode, createCalls, issues, runs, completed>>

\* await costExplorer.getCostAndUsage for [twoDaysAgo, yesterday).
FetchPrevious ==
    /\ pc = "fetchPrevious"
    /\ fetchCalls' = Append(fetchCalls, PreviousPeriod)
    /\ \/ /\ error' = ProviderError
          /\ pc' = "catch"
          /\ UNCHANGED previousResponse
       \/ \E r \in Responses(MainGroups, MaxGroups) :
            /\ Len(currentResponse[1].Groups) + Len(r.Groups) <= MaxGroups
            /\ previousResponse' = <<r>>
            /\ pc' = "aggregate"
            /\ UNCHANGED error
    /\ UNCHANGED <<env, currentResponse, result, issueBody, stdout, stderr,
                   exitCode, createCalls, issues, runs, completed>>

\* The rest of getCostsByService: the two conditions on the responses (the
\* first that reads ResultsByTime[0] of an empty list throws), the maps, the
\* services, the sort, the categories, the totals.
Aggregate ==
    /\ pc = "aggregate"
    /\ IF ConditionThrows(currentResponse[1]) \/ ConditionThrows(previousResponse[1])
       THEN /\ error' = TypeError
            /\ pc' = "catch"
            /\ UNCHANGED result
       ELSE /\ result' = <<CostResult(currentResponse[1], previousResponse[1])>>
            /\ pc' = "print"
            /\ UNCHANGED error
    /\ UNCHANGED <<env, currentResponse, previousResponse, issueBody, stdout,
                   stderr, exitCode, fetchCalls, createCalls, issues, runs,
                   completed>>

\* A plausible slip: the summary is not written before the issue is created.
PrintSummary_Skipped ==
    /\ pc = "print"
    /\ pc' = "publish"
    /\ UNCHANGED <<env, currentResponse, previousResponse, result, issueBody,
                   stdout, stderr, exitCode, error, fetchCalls, createCalls,
                   issues, runs, completed>>

\* console.log(JSON.stringify({summary, categories, details}, null, 2))
PrintSummary ==
    /\ pc = "print"
    /\ stdout' = Append(stdout, Summary(result[1]))
    /\ pc' = "publish"
    /\ UNCHANGED <<env, currentResponse, previousResponse, result, issueBody,
                   stderr, exitCode, error, fetchCalls, createCalls, issues,
                   runs, completed>>

\* The first missing configuration value, as createGitHubIssue tests them.
ConfigError(e) ==
    IF ~e.GITHUB_TOKEN THEN TokenError
    ELSE IF ~e.GITHUB_OWNER THEN OwnerError
    ELSE IF ~e.GITHUB_REPO THEN RepoError
    ELSE "none"

\* createGitHubIssue is entered: the three environment reads and the three
\* throws.
CheckConfig ==
    /\ pc = "publish"
    /\ IF ConfigError(env) # "none"
       THEN /\ error' = ConfigError(env)
            /\ pc' = "catch"
       ELSE /\ pc' = "body"
            /\ UNCHANGED error
    /\ UNCHANGED <<env, currentResponse, previousResponse, result, issueBody,
                   stdout, stderr, exitCode, fetchCalls, createCalls, issues,
                   runs, completed>>

\* new Octokit, formatChangePercentage and the template literal.
BuildIssueBody ==
    /\ pc = "body"
    /\ issueBody' = <<IssueBody(result[1])>>
    /\ pc' = "create"
    /\ UNCHANGED <<env, currentResponse, previousResponse, result, stdout,
                   stderr, exitCode, error, fetchCalls, createCalls, issues,
                   runs, completed>>

\* A plausible slip: an issue that is already there is not created again.
IssuesCreate_SkipExisting ==
    /\ pc = "create"
    /\ IF \E i \in 1..Len(issues) : issues[i] = IssueRequest(issueBody[1])
       THEN /\ pc' = "exited"
            /\ exitCode' = 0
            /\ completed' = completed + 1
            /\ UNCHANGED <<createCalls, issues, error>>
       ELSE /\ createCalls' = createCalls + 1
            /\ issues' = Append(issues, IssueRequest(issueBody[1]))
            /\ pc' = "exited"
            /\ exitCode' = 0
            /\ completed' = completed + 1
            /\ UNCHANGED error
    /\ UNCHANGED <<env, currentResponse, previousResponse, result, issueBody,
                   stdout, stderr, fetchCalls, runs>>

\* await octokit.issues.create({owner, repo, title, body, labels}): the
\* request is issued; the sink creates the issue and main returns, or the
\* sink refuses and the promise rejects.
IssuesCreate ==
    /\ pc = "create"
    /\ createCalls' = createCalls + 1
    /\ \/ /\ issues' = Append(issues, IssueRequest(issueBody[1]))
          /\ pc' = "exited"
          /\ exitCode' = 0
          /\ completed' = completed + 1
          /\ UNCHANGED error
       \/ /\ error' = SinkError
          /\ pc' = "catch"
          /\ UNCHANGED <<issues, exitCode, completed>>
    /\ UNCHANGED <<env, currentResponse, previousResponse, result, issueBody,
                   stdout, stderr, fetchCalls, runs>>

\* catch (error) { console.error('Error:', error); process.exit(1); }
Catch ==
    /\ pc = "catch"
    /\ stderr' = Append(stderr, error)
    /\ exitCode' = 1
    /\ pc' = "exited"
    /\ UNCHANGED <<env, currentResponse, previousResponse, result, issueBody,
                   stdout, error, fetchCalls, createCalls, issues, runs,
                   completed>>

Next ==
    \/ StartRun
    \/ FetchCurrent
    \/ FetchPrevious
    \/ Aggregate
    \/ PrintSummary
    \/ CheckConfig
    \/ BuildIssueBody
    \/ IssuesCreate
    \/ Catch

\* Runs of main, one after the other.
Spec == Init /\ [][Next]_vars

---------------------------------------------------------------------------
(* getCostsByService and the renderers on their own: the process right     *)
(* after both requests resolved, for every pair of responses.              *)

AfterFetch(S, max, kinds) ==
    /\ pc = "aggregate"
    /\ env = [GITHUB_TOKEN |-> TRUE, GITHUB_OWNER |-> TRUE, GITHUB_REPO |-> TRUE]
    /\ \E i, j \in 0..max :
         /\ i + j <= max
         /\ IF i = 0
            THEN \E r \in WithoutGroups : r.kind \in kinds /\ currentResponse = <<r>>
            ELSE \E g \in [1..i -> S] : currentResponse = <<GroupList(g)>>
         /\ IF j = 0
            THEN \E r \in WithoutGroups : r.kind \in kinds /\ previousResponse = <<r>>
            ELSE \E g \in [1..j -> S] : previousResponse = <<GroupList(g)>>
    /\ result = <<>>
    /\ issueBody = <<>>
    /\ stdout = <<>>
    /\ stderr = <<>>
    /\ exitCode = -1
    /\ error = "none"
    /\ fetchCalls = <<CurrentPeriod, PreviousPeriod>>
    /\ createCalls = 0
    /\ issues = <<>>
    /\ runs = 1
    /\ completed = 0

NextReport ==
    \/ Aggregate
    \/ PrintSummary
    \/ CheckConfig
    \/ BuildIssueBody

InitReport ==
    AfterFetch(ReportGroups, MaxGroups, {"absent", "empty", "noGroups", "groups"})

SpecReport == InitReport /\ [][NextReport]_vars

\* The classification on its own: the aggregation of every pair of group
\* lists over AllNames.
InitClassify == AfterFetch(NamedGroups, MaxNamedGroups, {"groups"})

NextClassify == Aggregate

SpecClassify == InitClassify /\ [][NextClassify]_vars

---------------------------------------------------------------------------
(* Properties.                                                             *)

RECURSIVE SumSeq(_)
SumSeq(numbers) == IF numbers = <<>> THEN 0 ELSE Head(numbers) + SumSeq(Tail(numbers))

Amounts(costs) == [i \in 1..Len(costs) |-> costs[i].amount]
PreviousAmounts(costs) == [i \in 1..Len(costs) |-> costs[i].previousAmount]
CategoryCurrents(categories) ==
    [i \in 1..Len(CategoryNames) |-> categories[CategoryNames[i]].current]

Elements(seq) == {seq[i] : i \in 1..Len(seq)}

\* The groups the provider returned in this run, over both windows.
GroupsReturned == Elements(currentResponse[1].Groups) \cup Elements(previousResponse[1].Groups)

NonNegativeInputs == \A g \in GroupsReturned : AmountOf(g) >= 0

\* No two groups of one response stand for the same service.
DistinctKeys(response) ==
    \A i, j \in 1..Len(response.Groups) :
        i # j => KeyOf(response.Groups[i]) # KeyOf(response.Groups[j])

ConfigPresent == env.GITHUB_TOKEN /\ env.GITHUB_OWNER /\ env.GITHUB_REPO

PublishErrors == {TokenError, OwnerError, RepoError, SinkError}

\* createGitHubIssue has been called in this run.
PublishAttempted ==
    \/ pc \in {"body", "create"}
    \/ createCalls > 0
    \/ error \in PublishErrors

(* C1: in a run in which GITHUB_TOKEN is absent, no getCostAndUsage call   *)
(* is ever issued.                                                         *)
C1_NoFetchWithoutToken == ~env.GITHUB_TOKEN => fetchCalls = <<>>

(* C2: the report is computed before the summary is written, the summary   *)
(* is written (once) before createGitHubIssue is entered, and a run that   *)
(* ends on a configuration or sink error has the summary on standard       *)
(* output, the error on the error stream and exit status 1.                *)
C2_SummaryBeforeIssue ==
    /\ stdout # <<>> => (result # <<>> /\ stdout = <<Summary(result[1])>>)
    /\ (pc = "publish" \/ PublishAttempted) => Len(stdout) = 1
    /\ (pc = "exited" /\ error \in PublishErrors) =>
          /\ Len(fetchCalls) = 2
          /\ Len(stdout) = 1
          /\ stderr = <<error>>
          /\ exitCode = 1

C2_Witness ==
    /\ pc = "exited"
    /\ error \in {TokenError, SinkError}
    /\ stdout = <<Summary(result[1])>>
    /\ exitCode = 1

(* C3: each getCostAndUsage request is issued at most once per run, and a  *)
(* run in which one of them fails writes nothing to standard output, makes *)
(* no issues.create call, builds no report, and ends with the error on the *)
(* error stream and exit status 1.                                         *)
C3_FetchFailureIsFatal ==
    /\ \A i, j \in 1..Len(fetchCalls) : i # j => fetchCalls[i] # fetchCalls[j]
    /\ error = ProviderError =>
          /\ stdout = <<>>
          /\ createCalls = 0
          /\ result = <<>>
          /\ issueBody = <<>>
          /\ pc \in {"catch", "exited"}
    /\ (error = ProviderError /\ pc = "exited") =>
          /\ stderr = <<ProviderError>>
          /\ exitCode = 1

C3_Witness ==
    /\ pc = "exited"
    /\ error = ProviderError
    /\ fetchCalls = <<CurrentPeriod, PreviousPeriod>>
    /\ exitCode = 1

(* C4: no run issues more than one issues.create call; a run that ends     *)
(* normally (both fetches resolved, the three configuration values         *)
(* present, the sink accepted the call) issued exactly one, with the       *)
(* labels cost, monitoring, daily-report; and the tracker holds one issue  *)
(* per such run, identical ones included.                                  *)
C4_OneIssuePerRun ==
    /\ createCalls <= 1
    /\ createCalls = 1 => (ConfigPresent /\ Len(fetchCalls) = 2)
    /\ (pc = "exited" /\ exitCode = 0) =>
          /\ createCalls = 1
          /\ issues # <<>>
          /\ issues[Len(issues)] = IssueRequest(issueBody[1])
          /\ issues[Len(issues)].labels = <<"cost", "monitoring", "daily-report">>
    /\ Len(issues) = completed

C4_Witness ==
    /\ pc = "exited"
    /\ exitCode = 0
    /\ completed = 2
    /\ Len(issues) = 2
    /\ issues[1] = issues[2]

C6_MissingGroupsNeverAnError ==
    (pc # "aggregate" /\ currentResponse # <<>> /\ previousResponse # <<>>) =>
        /\ (currentResponse[1].kind # "groups" \/ previousResponse[1].kind # "groups") =>
              (error = "none" /\ result # <<>>)
        /\ (result # <<>> /\ currentResponse[1].kind # "groups") => result[1].total = 0
        /\ (result # <<>> /\ previousResponse[1].kind # "groups") =>
              result[1].previousTotal = 0

\* Every (current, previous, changePercentage) triple of a report: the
\* services, the categories and the grand total.
Entities(report) ==
    {[current |-> report.costs[i].amount,
      previous |-> report.costs[i].previousAmount,
      change |-> report.costs[i].changePercentage] : i \in 1..Len(report.costs)}
    \cup {[current |-> report.categories[c].current,
           previous |-> report.categories[c].previous,
           change |-> report.categories[c].changePercentage] : c \in CategorySet}
    \cup {[current |-> report.total,
           previous |-> report.previousTotal,
           change |-> report.totalChangePercentage]}

\* change = (current - previous) / previous * 100, as an equation between
\* exact fractions.
IsRelativeChange(e) == e.change.n * e.previous = (e.current - e.previous) * 100 * e.change.d

(* C7 as claimed: changePercentage is 0 when both amounts are 0, 100 when  *)
(* previous is 0 and current is positive, and otherwise                    *)
(* (current - previous) / previous * 100.                                  *)
C7_ChangePercentageAsClaimed ==
    result # <<>> =>
        \A e \in Entities(result[1]) :
            IF e.previous = 0 /\ e.current = 0 THEN e.change.n = 0
            ELSE IF e.previous = 0 /\ e.current > 0 THEN e.change.n = 100 * e.change.d
            ELSE IsRelativeChange(e)

(* C7 amended: changePercentage is 0 when both amounts are 0, 100 when     *)
(* previous is 0 and current is not 0 (positive or negative), and          *)
(* otherwise (current - previous) / previous * 100.                        *)
C7_ChangePercentage ==
    result # <<>> =>
        \A e \in Entities(result[1]) :
            /\ e.change.d > 0
            /\ IF e.previous = 0 /\ e.current = 0 THEN e.change.n = 0
               ELSE IF e.previous = 0 THEN e.change.n = 100 * e.change.d
               ELSE IsRelativeChange(e)

C7_Witness ==
    /\ result # <<>>
    /\ \E i, j \in 1..Len(result[1].costs) :
         /\ result[1].costs[i].amount = 0
         /\ result[1].costs[i].previousAmount = 0
         /\ result[1].costs[i].changePercentage.n = 0
         /\ result[1].costs[j].amount < 0
         /\ result[1].costs[j].previousAmount = 0
         /\ result[1].costs[j].changePercentage = Frac(100, 1)

\* The classification as an ordered list of rules: a category and the
\* words one of which the lower-cased name must contain.
Rules ==
    << [category |-> "ec2", words |-> <<Word_ec2>>],
       [category |-> "security", words |-> SecurityWords],
       [category |-> "management", words |-> ManagementWords],
       [category |-> "storage", words |-> StorageWords],
       [category |-> "tax", words |-> <<Word_tax>>] >>

\* The category of the first rule that matches, "other" if none does.
FirstMatch(name) ==
    LET matching == {i \in 1..Len(Rules) : SomeIncluded(ToLowerCase(name), Rules[i].words)}
    IN IF matching = {} THEN "other"
       ELSE Rules[CHOOSE i \in matching : \A j \in matching : i <= j].category

\* The category of each name of a list, by FirstMatch.
RECURSIVE FirstMatches(_)
FirstMatches(names) ==
    IF names = <<>> THEN <<>>
    ELSE <<FirstMatch(Head(names))>> \o FirstMatches(Tail(names))

RECURSIVE LowerCased(_)
LowerCased(names) ==
    IF names = <<>> THEN <<>>
    ELSE <<ToLowerCase(Head(names))>> \o LowerCased(Tail(names))

\* The sum of the numbers whose service is in the category.
RECURSIVE SumOfCategory(_, _, _)
SumOfCategory(numbers, matches, category) ==
    IF numbers = <<>> THEN 0
    ELSE (IF Head(matches) = category THEN Head(numbers) ELSE 0)
         + SumOfCategory(Tail(numbers), Tail(matches), category)

\* The categories of a report are the sums of its services, each service
\* counted in the category that matches says, and services whose names
\* agree in lower (the lower-cased names) are counted together.
ClassifiedBy(report, matches, lower) ==
    /\ DOMAIN report.categories = CategorySet
    /\ \A c \in CategorySet :
         /\ report.categories[c].current =
               SumOfCategory(Amounts(report.costs), matches, c)
         /\ report.categories[c].previous =
               SumOfCategory(PreviousAmounts(report.costs), matches, c)
    /\ SumSeq(CategoryCurrents(report.categories)) = SumSeq(Amounts(report.costs))
    /\ \A i, j \in 1..Len(report.costs) :
         (i # j /\ lower[i] = lower[j]) =>
            \E c \in CategorySet :
               /\ report.categories[c].current >=
                     report.costs[i].amount + report.costs[j].amount
               /\ report.categories[c].previous >=
                     report.costs[i].previousAmount + report.costs[j].previousAmount

(* C8: every category's sums are those of exactly the services whose      *)
(* lower-cased name first matches that category's rule in the order ec2,   *)
(* security, management, storage, tax, other; so every service is counted  *)
(* in one category only, and two names that differ in letter case only are *)
(* counted in the same one.                                                *)
C8_Classification ==
    result # <<>> =>
        ClassifiedBy(result[1],
                     FirstMatches(ServiceNames(result[1].costs)),
                     LowerCased(ServiceNames(result[1].costs)))

C8_Witness ==
    /\ result # <<>>
    /\ ServiceNames(result[1].costs) \in
          {<<Name_AMAZON_EC2_INSTANCE, Name_EC2_VPC>>, <<Name_EC2_VPC, Name_AMAZON_EC2_INSTANCE>>}
    /\ result[1].categories["ec2"].current = result[1].total
    /\ result[1].total > 0
    /\ result[1].categories["security"].current = 0

NonZero(cost) == cost.amount # 0 \/ cost.previousAmount # 0

(* C9: the per-service detail of the issue body lists, in report order,    *)
(* exactly the services whose current or previous amount is not 0.         *)
C9_DetailListsNonZero ==
    issueBody # <<>> =>
        issueBody[1].detail = ServiceNames(SelectSeq(result[1].costs, NonZero))

\* The service is listed in the notable-changes section.
Listed(cost) == cost.serviceName \in Elements(issueBody[1].notable)

MovesMoreThan10(cost) == Abs(cost.changePercentage.n) > 10 * cost.changePercentage.d
Above1Cent(cost) == cost.amount > 10
NotableAsClaimed(cost) == MovesMoreThan10(cost) /\ Above1Cent(cost)

(* C10: the notable-changes section lists, in report order, exactly the    *)
(* services whose absolute changePercentage exceeds 10 and whose current   *)
(* amount exceeds 0.01; a service at 500 percent with an amount of at most *)
(* 0.01 is left out, one at 15 or -15 percent with an amount above 0.01 is *)
(* listed.                                                                 *)
C10_NotableChanges ==
    issueBody # <<>> =>
        /\ issueBody[1].notable = ServiceNames(SelectSeq(result[1].costs, NotableAsClaimed))
        /\ \A i \in 1..Len(result[1].costs) :
             LET cost == result[1].costs[i] IN
             /\ (cost.changePercentage.n = 500 * cost.changePercentage.d
                   /\ ~Above1Cent(cost)) => ~Listed(cost)
             /\ (Abs(cost.changePercentage.n) = 15 * cost.changePercentage.d
                   /\ Above1Cent(cost)) => Listed(cost)

C10_Witness ==
    /\ issueBody # <<>>
    /\ \E i, j \in 1..Len(result[1].costs) :
         /\ result[1].costs[i].changePercentage.n = 500 * result[1].costs[i].changePercentage.d
         /\ result[1].costs[i].amount > 0
         /\ ~Above1Cent(result[1].costs[i])
         /\ ~Listed(result[1].costs[i])
         /\ MovesMoreThan10(result[1].costs[j])
         /\ Above1Cent(result[1].costs[j])
         /\ Listed(result[1].costs[j])

=============================================================================
